---- MODULE Spec2Model ----
(***************************************************************************)
(* Identity & reconciliation engine of beancount-import's bank sources     *)
(* (Zen, Revolut, VeloBank, MT940): the prepare() pass of each source,     *)
(* the write-back of its pending entries to the journal and manual edits   *)
(* of the journal.                                                         *)
(*                                                                         *)
(* Abstractions:                                                           *)
(*  - Decimal amounts are integers in minor units.                         *)
(*  - A date is the ordinal of a day in a calendar of 12 months of         *)
(*    DaysPerMonth days.                                                   *)
(*  - hashlib.md5(data)[:12] is taken to be injective on the data string:  *)
(*    an identifier is the tuple <<namespace, field, ...>> of the fields   *)
(*    the source formats into the hashed string.                           *)
(*  - posting.meta is reduced to its source_ref value (NoRef when the      *)
(*    posting has no metadata or no source_ref key).                       *)
(***************************************************************************)
EXTENDS Integers, Sequences, FiniteSets, TLC

\* ------------------------------------------------------------------ bounds

MaxRuns == 2
MaxEdits == 1
DaysPerMonth == 2

\* ------------------------------------------------------------------- state

VARIABLES
    eb_txn,           \* the EnableBankingTransaction handed to get_parsed_transaction
    file_lines,       \* what a statement parser reads from the file it is given
    kind,             \* which source module is configured
    account_map,      \* self.account_map: account id -> ledger account
    default_account,  \* self.default_account (None when not configured)
    statements,       \* self.statements as loaded by the constructor
    today,            \* datetime.date.today() of the run
    journal,          \* journal.all_entries
    results,          \* SourceResults of the last prepare()
    valid_ids,        \* prepare's local valid_ids when it reaches the stale check
    seen,             \* journal.all_entries as the last prepare() read it
    log               \* the operations performed so far

vars == <<eb_txn, file_lines, kind, account_map, default_account, statements, today, journal,
          results, valid_ids, seen, log>>

\* --------------------------------------------------------------- constants

None == "None"
NoRef == <<>>
NoPrice == <<>>
FIXME_ACCOUNT == "Expenses:FIXME"
DEFAULT_CURRENCY == "PLN"

\* ----------------------------------------------------------------- helpers

Range(s) == {s[i] : i \in DOMAIN s}

RECURSIVE Concat(_)
Concat(ss) == IF ss = <<>> THEN <<>> ELSE Head(ss) \o Concat(Tail(ss))

RECURSIVE SortInts(_)
SortInts(S) ==
    IF S = {} THEN <<>>
    ELSE LET m == CHOOSE x \in S : \A y \in S : x <= y
         IN <<m>> \o SortInts(S \ {m})

MinOf(S) == CHOOSE x \in S : \A y \in S : x <= y
MaxOf(S) == CHOOSE x \in S : \A y \in S : x >= y
Abs(x) == IF x < 0 THEN -x ELSE x

\* Distinct elements of a sequence, in order of first occurrence
\* (the key order of a Python dict filled by setdefault).
RECURSIVE Distinct(_)
Distinct(s) ==
    IF s = <<>> THEN <<>>
    ELSE LET r == Distinct(SubSeq(s, 1, Len(s) - 1))
             x == s[Len(s)]
         IN IF x \in Range(r) THEN r ELSE Append(r, x)

\* datetime.date(year, month, day), date.year, date.month
DateOf(year, month, day) == (year * 12 + (month - 1)) * DaysPerMonth + day
YearOf(d) == (d - 1) \div (12 * DaysPerMonth)
MonthOf(d) == (((d - 1) \div DaysPerMonth) % 12) + 1

\* ----------------------------------------------------------- ledger index

get_all_accounts ==
    {account_map[k] : k \in DOMAIN account_map}
        \cup (IF default_account # None THEN {default_account} ELSE {})

\* All (entry, posting) pairs of the journal, in journal order.
RECURSIVE AllPostings(_)
AllPostings(entries) ==
    IF entries = <<>> THEN <<>>
    ELSE LET e == Head(entries)
         IN (IF e.type = "Transaction"
             THEN [p \in 1..Len(e.postings) |-> <<e, e.postings[p]>>]
             ELSE <<>>) \o AllPostings(Tail(entries))

\* An index that does not look at the account of the posting
IndexedFilter_AnyAccount(pair, all_accounts) ==
    pair[2].meta # NoRef

IndexedFilter(pair, all_accounts) ==
    /\ pair[2].meta # NoRef
    /\ pair[2].account \in all_accounts

IndexedPairs(entries, all_accounts) ==
    SelectSeq(AllPostings(entries), LAMBDA pair : IndexedFilter(pair, all_accounts))

\* matched_ids.keys() in insertion order, and matched_ids.get(ref)
MatchedKeys(entries, all_accounts) ==
    LET ps == IndexedPairs(entries, all_accounts)
    IN Distinct([i \in 1..Len(ps) |-> ps[i][2].meta])

MatchedGet(entries, all_accounts, ref) ==
    SelectSeq(IndexedPairs(entries, all_accounts), LAMBDA pair : pair[2].meta = ref)

InvalidSourceReference(num_extras, pairs) ==
    [num_extras |-> num_extras, transaction_posting_pairs |-> pairs]

ImportResult(date, entry, info) ==
    [date |-> date, entries |-> <<entry>>, info |-> info]

Posting(account, units, currency, price, meta) ==
    [account |-> account, units |-> units, currency |-> currency,
     price |-> price, meta |-> meta]

Transaction(date, postings) ==
    [type |-> "Transaction", date |-> date, postings |-> postings]

Balance(date, account, amount, currency) ==
    [type |-> "Balance", date |-> date, account |-> account,
     amount |-> amount, currency |-> currency]

Document(date, account, filename) ==
    [type |-> "Document", date |-> date, account |-> account,
     filename |-> filename]

\* --------------------------------------------------------------------- Zen

Zen_generate_transaction_id(iban, txn) ==
    <<"zen", txn.date, txn.settlement_amount, txn.balance_after>>

Zen_get_account_for_id(account_id) ==
    IF account_id \in DOMAIN account_map THEN account_map[account_id]
    ELSE default_account

ZenAccountId(statement) == <<statement.iban, statement.currency>>

\* self.transactions: the (statement, txn) pairs in load order
ZenTransactions(stmts) ==
    Concat([s \in 1..Len(stmts) |->
        [i \in 1..Len(stmts[s].transactions) |->
            [statement |-> stmts[s], txn |-> stmts[s].transactions[i]]]])

ZenTxnKey(T, i) ==
    <<T[i].statement.iban, T[i].statement.currency, T[i].txn.line_number>>

ZenFxIdx(T) == {i \in 1..Len(T) : T[i].txn.transaction_type = "Exchange money"}

ZenGroupKey(T, i) == <<T[i].txn.date, T[i].txn.currency_rate>>

ZenGroupFirst(T, i) ==
    MinOf({j \in ZenFxIdx(T) : ZenGroupKey(T, j) = ZenGroupKey(T, i)})

\* The order in which _find_fx_pairs visits the sources: groups in the
\* insertion order of by_date_rate, the sources of a group in load order.
ZenSourceOrder(T) ==
    LET n == Len(T) + 1
        keys == {ZenGroupFirst(T, i) * n + i :
                    i \in {j \in ZenFxIdx(T) : T[j].txn.settlement_amount < 0}}
        sorted == SortInts(keys)
    IN [k \in 1..Len(sorted) |-> sorted[k] % n]

ZenFxMatch(T, s, j) ==
    /\ Abs(T[s].txn.settlement_amount) = Abs(T[j].txn.original_amount)
    /\ Abs(T[s].txn.original_amount) = Abs(T[j].txn.settlement_amount)
    /\ T[s].statement.currency # T[j].statement.currency

\* Candidates chosen without looking at the targets already taken
ZenFxCandidates_Reuse(T, s, matched_target) ==
    {j \in ZenFxIdx(T) :
        /\ ZenGroupKey(T, j) = ZenGroupKey(T, s)
        /\ T[j].txn.settlement_amount > 0
        /\ ZenFxMatch(T, s, j)}

ZenFxCandidates(T, s, matched_target) ==
    {j \in ZenFxIdx(T) :
        /\ ZenGroupKey(T, j) = ZenGroupKey(T, s)
        /\ T[j].txn.settlement_amount > 0
        /\ ZenTxnKey(T, j) \notin matched_target
        /\ ZenFxMatch(T, s, j)}

RECURSIVE ZenFxFold(_, _, _)
ZenFxFold(T, order, acc) ==
    IF order = <<>> THEN acc
    ELSE LET s == Head(order)
             cands == ZenFxCandidates(T, s, acc.matched_target)
             next ==
                 IF ZenTxnKey(T, s) \in acc.matched_source \/ cands = {}
                 THEN acc
                 ELSE LET j == MinOf(cands)
                      IN [pairs |-> Append(acc.pairs, [src |-> s, tgt |-> j]),
                          matched_source |->
                              acc.matched_source \cup {ZenTxnKey(T, s)},
                          matched_target |->
                              acc.matched_target \cup {ZenTxnKey(T, j)}]
         IN ZenFxFold(T, Tail(order), next)

Zen_find_fx_pairs(T) ==
    ZenFxFold(T, ZenSourceOrder(T),
              [pairs |-> <<>>, matched_source |-> {}, matched_target |-> {}])

\* A transaction whose source_ref is written in the form of the module
\* docstring's example, with the IBAN and the line number in it
Zen_make_transaction_DocFormat(statement, txn, target_account) ==
    Transaction(txn.date,
        <<Posting(target_account, txn.settlement_amount, txn.settlement_currency,
                  NoPrice,
                  <<"zen", statement.iban, txn.line_number, txn.date, txn.settlement_amount>>),
          Posting(FIXME_ACCOUNT, -txn.settlement_amount, txn.settlement_currency,
                  NoPrice, NoRef)>>)

Zen_make_transaction(statement, txn, target_account) ==
    Transaction(txn.date,
        <<Posting(target_account, txn.settlement_amount, txn.settlement_currency,
                  NoPrice, Zen_generate_transaction_id(statement.iban, txn)),
          Posting(FIXME_ACCOUNT, -txn.settlement_amount, txn.settlement_currency,
                  NoPrice, NoRef)>>)

\* The per-unit price |src| / tgt is kept as the exact fraction <<num, den>>
\* (Decimal's 28-digit context rounding is not modelled).
Zen_make_fx_transaction(T, pair, source_account, target_account) ==
    LET src == T[pair.src]
        tgt == T[pair.tgt]
    IN Transaction(src.txn.date,
        <<Posting(source_account, src.txn.settlement_amount,
                  src.txn.settlement_currency, NoPrice,
                  Zen_generate_transaction_id(src.statement.iban, src.txn)),
          Posting(target_account, tgt.txn.settlement_amount,
                  tgt.txn.settlement_currency,
                  <<Abs(src.txn.settlement_amount), tgt.txn.settlement_amount,
                    src.txn.settlement_currency>>,
                  Zen_generate_transaction_id(tgt.statement.iban, tgt.txn))>>)

\* One element of balances_by_account[account]
BalanceItem(account, date, balance, currency) ==
    [account |-> account, date |-> date, balance |-> balance, currency |-> currency]

ZenFxValid(T, pair) ==
    {Zen_generate_transaction_id(T[pair.src].statement.iban, T[pair.src].txn),
     Zen_generate_transaction_id(T[pair.tgt].statement.iban, T[pair.tgt].txn)}

ZenFxInvalid(T, pair, entries, all_accounts) ==
    LET src_existing == MatchedGet(entries, all_accounts,
            Zen_generate_transaction_id(T[pair.src].statement.iban, T[pair.src].txn))
        tgt_existing == MatchedGet(entries, all_accounts,
            Zen_generate_transaction_id(T[pair.tgt].statement.iban, T[pair.tgt].txn))
    IN (IF Len(src_existing) > 1
        THEN <<InvalidSourceReference(Len(src_existing) - 1, src_existing)>>
        ELSE <<>>)
       \o (IF Len(tgt_existing) > 1
           THEN <<InvalidSourceReference(Len(tgt_existing) - 1, tgt_existing)>>
           ELSE <<>>)

ZenFxPending(T, pair, entries, all_accounts) ==
    LET src_existing == MatchedGet(entries, all_accounts,
            Zen_generate_transaction_id(T[pair.src].statement.iban, T[pair.src].txn))
        tgt_existing == MatchedGet(entries, all_accounts,
            Zen_generate_transaction_id(T[pair.tgt].statement.iban, T[pair.tgt].txn))
        src_account == Zen_get_account_for_id(ZenAccountId(T[pair.src].statement))
        tgt_account == Zen_get_account_for_id(ZenAccountId(T[pair.tgt].statement))
    IN IF src_existing # <<>> \/ tgt_existing # <<>> THEN <<>>
       ELSE IF src_account # None /\ tgt_account # None
            THEN <<ImportResult(T[pair.src].txn.date,
                       Zen_make_fx_transaction(T, pair, src_account, tgt_account),
                       T[pair.src].statement.filename)>>
            ELSE <<>>

ZenFxBalances(T, pair) ==
    LET src == T[pair.src]
        tgt == T[pair.tgt]
        src_account == Zen_get_account_for_id(ZenAccountId(src.statement))
        tgt_account == Zen_get_account_for_id(ZenAccountId(tgt.statement))
    IN (IF src_account # None
        THEN <<BalanceItem(src_account, src.txn.date, src.txn.balance_after,
                           src.txn.settlement_currency)>>
        ELSE <<>>)
       \o (IF tgt_account # None
           THEN <<BalanceItem(tgt_account, tgt.txn.date, tgt.txn.balance_after,
                              tgt.txn.settlement_currency)>>
           ELSE <<>>)

\* The loop over the remaining (non-paired) transactions, one iteration.
ZenTxnSkipped(T, i, paired_keys) == ZenTxnKey(T, i) \in paired_keys

ZenTxnInvalid(T, i, entries, all_accounts) ==
    LET existing == MatchedGet(entries, all_accounts,
            Zen_generate_transaction_id(T[i].statement.iban, T[i].txn))
    IN IF Len(existing) > 1
       THEN <<InvalidSourceReference(Len(existing) - 1, existing)>>
       ELSE <<>>

ZenTxnPending(T, i, entries, all_accounts) ==
    LET existing == MatchedGet(entries, all_accounts,
            Zen_generate_transaction_id(T[i].statement.iban, T[i].txn))
        target_account == Zen_get_account_for_id(ZenAccountId(T[i].statement))
    IN IF existing # <<>> \/ target_account = None THEN <<>>
       ELSE <<ImportResult(T[i].txn.date,
                  Zen_make_transaction(T[i].statement, T[i].txn, target_account),
                  T[i].statement.filename)>>

ZenTxnBalances(T, i) ==
    LET target_account == Zen_get_account_for_id(ZenAccountId(T[i].statement))
    IN IF target_account # None
       THEN <<BalanceItem(target_account, T[i].txn.date, T[i].txn.balance_after,
                          T[i].txn.settlement_currency)>>
       ELSE <<>>

\* Monthly balance assertions of one account: balance_list.sort(key=date) is
\* stable, monthly_balances keeps the last item of each (year, month).
ZenMonthlyBalances(account, items, now) ==
    LET mine == SelectSeq(items, LAMBDA it : it.account = account)
        ym(d) == YearOf(d) * 12 + (MonthOf(d) - 1)
        months == SortInts({ym(mine[i].date) : i \in DOMAIN mine})
        last(m) ==
            LET inm == {i \in DOMAIN mine : ym(mine[i].date) = m}
                dmax == MaxOf({mine[i].date : i \in inm})
            IN mine[MaxOf({i \in inm : mine[i].date = dmax})]
        one(m) ==
            LET year == m \div 12
                month == (m % 12) + 1
                balance_date == IF month = 12 THEN DateOf(year + 1, 1, 1)
                                ELSE DateOf(year, month + 1, 1)
            IN IF <<year, month>> = <<YearOf(now), MonthOf(now)>> THEN <<>>
               ELSE <<ImportResult(balance_date,
                          Balance(balance_date, account, last(m).balance,
                                  last(m).currency),
                          "balance")>>
    IN Concat([k \in 1..Len(months) |-> one(months[k])])

ZenDocuments(stmts) ==
    LET one(statement) ==
            LET target_account == Zen_get_account_for_id(ZenAccountId(statement))
                max_date == MaxOf({statement.transactions[i].date :
                                      i \in DOMAIN statement.transactions})
            IN IF statement.transactions = <<>> \/ target_account = None THEN <<>>
               ELSE <<ImportResult(max_date,
                          Document(max_date, target_account, statement.filename),
                          statement.filename)>>
    IN Concat([s \in 1..Len(stmts) |-> one(stmts[s])])

StaleReferences(entries, all_accounts, valid) ==
    LET keys == MatchedKeys(entries, all_accounts)
        one(ref) ==
            LET postings == MatchedGet(entries, all_accounts, ref)
            IN IF ref \notin valid
               THEN <<InvalidSourceReference(Len(postings), postings)>>
               ELSE <<>>
    IN Concat([k \in 1..Len(keys) |-> one(keys[k])])

ZenValidIds(stmts) ==
    LET T == ZenTransactions(stmts)
        fx == Zen_find_fx_pairs(T)
        paired_keys == fx.matched_source \cup fx.matched_target
    IN UNION {ZenFxValid(T, fx.pairs[k]) : k \in DOMAIN fx.pairs}
       \cup {Zen_generate_transaction_id(T[i].statement.iban, T[i].txn) :
                i \in {j \in DOMAIN T : ~ZenTxnSkipped(T, j, paired_keys)}}

ZenPrepare(stmts, entries, now) ==
    LET all_accounts == get_all_accounts
        T == ZenTransactions(stmts)
        fx == Zen_find_fx_pairs(T)
        paired_keys == fx.matched_source \cup fx.matched_target
        rest == SelectSeq([i \in 1..Len(T) |-> i],
                          LAMBDA i : ~ZenTxnSkipped(T, i, paired_keys))
        valid == ZenValidIds(stmts)
        items == Concat([k \in 1..Len(fx.pairs) |-> ZenFxBalances(T, fx.pairs[k])])
                 \o Concat([k \in 1..Len(rest) |-> ZenTxnBalances(T, rest[k])])
        accounts == Distinct([k \in 1..Len(items) |-> items[k].account])
    IN [pending |->
            Concat([k \in 1..Len(fx.pairs) |->
                       ZenFxPending(T, fx.pairs[k], entries, all_accounts)])
            \o Concat([k \in 1..Len(rest) |->
                       ZenTxnPending(T, rest[k], entries, all_accounts)])
            \o Concat([k \in 1..Len(accounts) |->
                       ZenMonthlyBalances(accounts[k], items, now)])
            \o ZenDocuments(stmts),
        invalid |->
            Concat([k \in 1..Len(fx.pairs) |->
                       ZenFxInvalid(T, fx.pairs[k], entries, all_accounts)])
            \o Concat([k \in 1..Len(rest) |->
                       ZenTxnInvalid(T, rest[k], entries, all_accounts)])
            \o StaleReferences(entries, all_accounts, valid)]

\* ----------------------------------------------------------------- Revolut

Revolut_generate_transaction_id(account_type, currency, txn) ==
    <<"revolut", account_type, currency, txn.date, txn.amount, txn.balance_after>>

Revolut_get_account_for_id(account_id) ==
    IF account_id \in DOMAIN account_map THEN account_map[account_id] ELSE None

RevolutTransactions(stmts) ==
    Concat([s \in 1..Len(stmts) |->
        [i \in 1..Len(stmts[s].transactions) |->
            [statement |-> stmts[s], txn |-> stmts[s].transactions[i]]]])

RevolutTxnId(T, i) ==
    Revolut_generate_transaction_id(T[i].statement.account_type, T[i].txn.currency, T[i].txn)

RevolutAccountId(T, i) == <<T[i].statement.account_type, T[i].txn.currency>>

\* Decimal.quantize(Decimal('0.0001')) of n / d, d > 0 (ROUND_HALF_EVEN),
\* in units of 0.0001
QuantizePrice(n, d) ==
    LET q == (n * 10000) \div d
        r == (n * 10000) % d
    IN IF 2 * r > d \/ (2 * r = d /\ q % 2 = 1) THEN q + 1 ELSE q

\* The FIXME posting of RevolutSource._make_transaction.  original_amount is
\* <<>> when the PDF gave none, <<n>> when it gave the text of the number n.
RevolutFixmePosting(txn) ==
    IF txn.original_amount # <<>> /\ txn.original_currency # None
       /\ txn.original_currency # txn.currency
       /\ txn.original_amount[1] # 0
    THEN LET parsed == txn.original_amount[1]
             orig_amount == IF txn.amount < 0 THEN parsed ELSE -parsed
         IN Posting(FIXME_ACCOUNT, orig_amount, txn.original_currency,
                    <<QuantizePrice(Abs(txn.amount), Abs(orig_amount)), 10000,
                      txn.currency>>,
                    NoRef)
    ELSE Posting(FIXME_ACCOUNT, -txn.amount, txn.currency, NoPrice, NoRef)

Revolut_make_transaction(statement, txn, target_account) ==
    Transaction(txn.date,
        <<Posting(target_account, txn.amount, txn.currency, NoPrice,
                  Revolut_generate_transaction_id(statement.account_type,
                                                  txn.currency, txn)),
          RevolutFixmePosting(txn)>>)

RevolutStaged(T, i, entries, all_accounts) ==
    /\ MatchedGet(entries, all_accounts, RevolutTxnId(T, i)) = <<>>
    /\ Revolut_get_account_for_id(RevolutAccountId(T, i)) # None

RevolutTxnInvalid(T, i, entries, all_accounts) ==
    LET existing == MatchedGet(entries, all_accounts, RevolutTxnId(T, i))
    IN IF Len(existing) > 1
       THEN <<InvalidSourceReference(Len(existing) - 1, existing)>>
       ELSE <<>>

RevolutTxnPending(T, i, entries, all_accounts) ==
    IF RevolutStaged(T, i, entries, all_accounts)
    THEN <<ImportResult(T[i].txn.date,
               Revolut_make_transaction(T[i].statement, T[i].txn,
                   Revolut_get_account_for_id(RevolutAccountId(T, i))),
               T[i].statement.filename)>>
    ELSE <<>>

\* balances_by_account is appended to only for the transactions staged.
RevolutTxnBalances(T, i, entries, all_accounts) ==
    IF RevolutStaged(T, i, entries, all_accounts)
    THEN <<BalanceItem(Revolut_get_account_for_id(RevolutAccountId(T, i)),
                       T[i].txn.date, T[i].txn.balance_after, T[i].txn.currency)>>
    ELSE <<>>

RevolutBalance(account, items) ==
    LET mine == SelectSeq(items, LAMBDA it : it.account = account)
        latest_date == MaxOf({mine[i].date : i \in DOMAIN mine})
        last == mine[MaxOf({i \in DOMAIN mine : mine[i].date = latest_date})]
    IN <<ImportResult(latest_date + 1,
             Balance(latest_date + 1, account, last.balance, last.currency),
             "<balance>")>>

RevolutStaleCount(postings) == 0

RevolutStaleReferences(entries, all_accounts, valid) ==
    LET keys == MatchedKeys(entries, all_accounts)
        one(ref) ==
            LET postings == MatchedGet(entries, all_accounts, ref)
            IN IF ref \notin valid /\ ref[1] = "revolut"
               THEN <<InvalidSourceReference(RevolutStaleCount(postings), postings)>>
               ELSE <<>>
    IN Concat([k \in 1..Len(keys) |-> one(keys[k])])

RevolutDocuments(T) ==
    LET firsts == {i \in DOMAIN T :
                      \A j \in 1..(i - 1) : T[j].statement.filename # T[i].statement.filename}
        order == SortInts(firsts)
        one(i) ==
            LET target_account == Revolut_get_account_for_id(RevolutAccountId(T, i))
                max_date == MaxOf({T[j].txn.date :
                    j \in {k \in DOMAIN T : T[k].statement.filename = T[i].statement.filename}})
            IN IF target_account = None THEN <<>>
               ELSE <<ImportResult(max_date,
                          Document(max_date, target_account, T[i].statement.filename),
                          T[i].statement.filename)>>
    IN Concat([k \in 1..Len(order) |-> one(order[k])])

RevolutValidIds(stmts) ==
    LET T == RevolutTransactions(stmts)
    IN {RevolutTxnId(T, i) : i \in DOMAIN T}

RevolutPrepare(stmts, entries) ==
    LET all_accounts == get_all_accounts
        T == RevolutTransactions(stmts)
        items == Concat([i \in 1..Len(T) |->
                            RevolutTxnBalances(T, i, entries, all_accounts)])
        accounts == Distinct([k \in 1..Len(items) |-> items[k].account])
    IN [pending |->
            Concat([i \in 1..Len(T) |-> RevolutTxnPending(T, i, entries, all_accounts)])
            \o Concat([k \in 1..Len(accounts) |-> RevolutBalance(accounts[k], items)])
            \o RevolutDocuments(T),
        invalid |->
            Concat([i \in 1..Len(T) |-> RevolutTxnInvalid(T, i, entries, all_accounts)])
            \o RevolutStaleReferences(entries, all_accounts, RevolutValidIds(stmts))]

\* ---------------------------------------------------------------- VeloBank

\* txn.filename.endswith('.html'): the suffix is compared as it is written
IsHtml(filename) == filename \in {"cc.html"}

Velobank_generate_transaction_id(txn) ==
    <<"velobank", txn.booking_date, txn.amount, txn.balance_after>>
        \o (IF IsHtml(txn.filename) THEN <<txn.line_number>> ELSE <<>>)

Velobank_get_account_for_iban(iban) ==
    IF iban # "" /\ iban \in DOMAIN account_map THEN account_map[iban]
    ELSE default_account

Velobank_make_transaction(txn, target_account) ==
    Transaction(txn.booking_date,
        <<Posting(target_account, txn.amount, DEFAULT_CURRENCY, NoPrice,
                  Velobank_generate_transaction_id(txn)),
          Posting(FIXME_ACCOUNT, -txn.amount, DEFAULT_CURRENCY, NoPrice, NoRef)>>)

VelobankTxnInvalid(txn, entries, all_accounts) ==
    LET existing == MatchedGet(entries, all_accounts, Velobank_generate_transaction_id(txn))
    IN IF Len(existing) > 1
       THEN <<InvalidSourceReference(Len(existing) - 1, existing)>>
       ELSE <<>>

VelobankTxnPending(txn, target_account, entries, all_accounts) ==
    IF MatchedGet(entries, all_accounts, Velobank_generate_transaction_id(txn)) = <<>>
    THEN <<ImportResult(txn.booking_date,
               Velobank_make_transaction(txn, target_account), txn.filename)>>
    ELSE <<>>

VelobankStatementPending(statement, entries, all_accounts) ==
    LET target_account == Velobank_get_account_for_iban(statement.account_iban)
        txns == statement.transactions
        balance_date == statement.period_end + 1
    IN Concat([i \in 1..Len(txns) |->
                  VelobankTxnPending(txns[i], target_account, entries, all_accounts)])
       \o (IF txns # <<>>
           THEN <<ImportResult(balance_date,
                      Balance(balance_date, target_account,
                              txns[Len(txns)].balance_after, DEFAULT_CURRENCY),
                      statement.filename)>>
           ELSE <<>>)

VelobankDocuments(stmts) ==
    LET one(statement) ==
            LET max_date == MaxOf({statement.transactions[i].booking_date :
                                      i \in DOMAIN statement.transactions})
            IN IF statement.transactions = <<>> THEN <<>>
               ELSE <<ImportResult(max_date,
                          Document(max_date,
                                   Velobank_get_account_for_iban(statement.account_iban),
                                   statement.filename),
                          statement.filename)>>
    IN Concat([s \in 1..Len(stmts) |-> one(stmts[s])])

VelobankValidIds(stmts) ==
    UNION {{Velobank_generate_transaction_id(stmts[s].transactions[i]) :
               i \in DOMAIN stmts[s].transactions} : s \in DOMAIN stmts}

VelobankPrepare(stmts, entries) ==
    LET all_accounts == get_all_accounts
    IN [pending |->
            Concat([s \in 1..Len(stmts) |->
                       VelobankStatementPending(stmts[s], entries, all_accounts)])
            \o VelobankDocuments(stmts),
        invalid |->
            Concat([s \in 1..Len(stmts) |->
                Concat([i \in 1..Len(stmts[s].transactions) |->
                    VelobankTxnInvalid(stmts[s].transactions[i], entries, all_accounts)])])
            \o StaleReferences(entries, all_accounts, VelobankValidIds(stmts))]

\* ------------------------------------------------------------------- MT940

\* extra_details and customer_reference are numbered texts, 0 the empty one.
Mt940_generate_transaction_id(account_iban, txn) ==
    <<"mt940", txn.value_date, txn.amount,
      IF txn.extra_details # 0 THEN txn.extra_details ELSE txn.customer_reference>>

\* self.transactions: (stmt, txn, account, bank); statements holds the
\* parsed statements with the account of the configuration they came from.
Mt940Transactions(stmts) ==
    Concat([s \in 1..Len(stmts) |->
        [i \in 1..Len(stmts[s].transactions) |->
            [stmt |-> stmts[s], txn |-> stmts[s].transactions[i],
             account |-> account_map[stmts[s].directory]]]])

Mt940TxnId(T, i) == Mt940_generate_transaction_id(T[i].stmt.account_iban, T[i].txn)

Mt940_make_transaction(stmt, txn, account) ==
    Transaction(txn.value_date,
        <<Posting(account, txn.amount, stmt.currency, NoPrice,
                  Mt940_generate_transaction_id(stmt.account_iban, txn)),
          Posting(FIXME_ACCOUNT, -txn.amount, stmt.currency, NoPrice, NoRef)>>)

Mt940TxnInvalid(T, i, entries, all_accounts) ==
    LET existing == MatchedGet(entries, all_accounts, Mt940TxnId(T, i))
    IN IF Len(existing) > 1
       THEN <<InvalidSourceReference(Len(existing) - 1, existing)>>
       ELSE <<>>

Mt940TxnPending(T, i, entries, all_accounts) ==
    IF MatchedGet(entries, all_accounts, Mt940TxnId(T, i)) = <<>>
    THEN <<ImportResult(T[i].txn.value_date,
               Mt940_make_transaction(T[i].stmt, T[i].txn, T[i].account),
               T[i].stmt.filename)>>
    ELSE <<>>

\* balances_by_account[account] is overwritten by every transaction.
Mt940Balance(T, account) ==
    LET last == T[MaxOf({i \in DOMAIN T : T[i].account = account})].stmt
    IN <<ImportResult(last.closing_date,
             Balance(last.closing_date + 1, account, last.closing_balance,
                     last.currency),
             "<balance>")>>

\* Mt940StaleReferences reporting only identifiers referenced more than once
Mt940StaleReferences_OnlyRepeated(entries, all_accounts, valid) ==
    LET keys == MatchedKeys(entries, all_accounts)
        one(ref) ==
            LET postings == MatchedGet(entries, all_accounts, ref)
            IN IF ref \notin valid /\ ref[1] = "mt940" /\ Len(postings) > 1
               THEN <<InvalidSourceReference(Len(postings), postings)>>
               ELSE <<>>
    IN Concat([k \in 1..Len(keys) |-> one(keys[k])])

Mt940StaleReferences(entries, all_accounts, valid) ==
    LET keys == MatchedKeys(entries, all_accounts)
        one(ref) ==
            LET postings == MatchedGet(entries, all_accounts, ref)
            IN IF ref \notin valid /\ ref[1] = "mt940"
               THEN <<InvalidSourceReference(Len(postings), postings)>>
               ELSE <<>>
    IN Concat([k \in 1..Len(keys) |-> one(keys[k])])

Mt940ValidIds(stmts) ==
    LET T == Mt940Transactions(stmts)
    IN {Mt940TxnId(T, i) : i \in DOMAIN T}

Mt940Prepare(stmts, entries) ==
    LET all_accounts == get_all_accounts
        T == Mt940Transactions(stmts)
        accounts == Distinct([i \in 1..Len(T) |-> T[i].account])
    IN [pending |->
            Concat([i \in 1..Len(T) |-> Mt940TxnPending(T, i, entries, all_accounts)])
            \o Concat([k \in 1..Len(accounts) |-> Mt940Balance(T, accounts[k])]),
        invalid |->
            Concat([i \in 1..Len(T) |-> Mt940TxnInvalid(T, i, entries, all_accounts)])
            \o Mt940StaleReferences(entries, all_accounts, Mt940ValidIds(stmts))]

\* ---------------------------------------------------------- loaded inputs

ZenFiles ==
    <<[filename |-> "2025-03-EUR.csv", iban |-> "GB72", currency |-> "EUR", month |-> 1],
      [filename |-> "2025-03-PLN.csv", iban |-> "GB72", currency |-> "PLN", month |-> 1],
      [filename |-> "2025-04-PLN.csv", iban |-> "GB72", currency |-> "PLN", month |-> 2]>>

ZenRow(f, ty, a, o, b) ==
    [date |-> DateOf(0, f.month, 1), transaction_type |-> ty,
     settlement_amount |-> a, settlement_currency |-> f.currency,
     original_amount |-> o, currency_rate |-> 1, balance_after |-> b,
     line_number |-> 18]

\* The rows a statement file may hold (at most one; parse_csv numbers the
\* rows from the file's own "Transactions:" line, the same in every file).
ZenRows(f) ==
    {<<>>}
    \cup {<<ZenRow(f, "Card payment", -1, -1, 0)>>}
    \cup {<<ZenRow(f, "Exchange money", -1, o, 0)>> : o \in {-1, -2}}
    \cup {<<ZenRow(f, "Exchange money", 1, 1, 0)>>}

ZenStatement(f, rows) ==
    [filename |-> f.filename, iban |-> f.iban, currency |-> f.currency,
     transactions |-> rows]

ZenConfigs ==
    {[map |-> (<<"GB72", "PLN">> :> "Assets:Zen:PLN") @@ (<<"GB72", "EUR">> :> "Assets:Zen:EUR"),
      default |-> None],
     [map |-> (<<"GB72", "PLN">> :> "Assets:Zen:PLN"), default |-> None],
     [map |-> (<<"GB72", "EUR">> :> "Assets:Zen:EUR"), default |-> "Assets:Zen:Unknown"]}

EmptyResults == [pending |-> <<>>, invalid |-> <<>>]

\* What _load_all_data may leave in self.statements
ZenLoads ==
    {<<ZenStatement(ZenFiles[1], r1), ZenStatement(ZenFiles[2], r2),
       ZenStatement(ZenFiles[3], r3)>> :
        r1 \in ZenRows(ZenFiles[1]), r2 \in ZenRows(ZenFiles[2]),
        r3 \in ZenRows(ZenFiles[3])}

\* The days datetime.date.today() may return to ZenSource.prepare: a day of
\* the month of the newest statement, and a day of a later month
RunDays == {DateOf(0, 2, 2), DateOf(0, 4, 1)}

InitZen ==
    /\ kind = "zen"
    /\ \E c \in ZenConfigs : account_map = c.map /\ default_account = c.default
    /\ statements \in ZenLoads
    /\ today \in RunDays

\* Revolut: one account CSV of the personal account, split by parse_account_csv
\* into a statement per currency; balances run from an opening balance.
RevolutOpening == 2

RevolutRow(c, d, a, o, b) ==
    [date |-> d, amount |-> a, balance_after |-> b, currency |-> c,
     original_amount |-> o,
     original_currency |-> IF o = <<>> THEN None ELSE "USD"]

RevolutRowSpecs ==
    {<<d, -1, o>> : d \in {DateOf(0, 1, 1), DateOf(0, 1, 2)}, o \in {<<>>, <<3>>, <<0>>}}
    \cup {<<DateOf(0, 1, 1), 1, <<3>>>>}

RevolutRows(c) ==
    {<<>>}
    \cup {<<RevolutRow(c, x[1], x[2], x[3], RevolutOpening + x[2])>> : x \in RevolutRowSpecs}
    \cup {<<RevolutRow(c, x[1], x[2], x[3], RevolutOpening + x[2]),
            RevolutRow(c, y[1], y[2], y[3], RevolutOpening + x[2] + y[2])>> :
            x \in RevolutRowSpecs, y \in RevolutRowSpecs}

RevolutStatement(c, rows) ==
    [filename |-> "account-statement.csv", account_type |-> "personal",
     currency |-> c, transactions |-> rows]

RevolutConfigs ==
    {(<<"personal", "PLN">> :> "Assets:Revolut:PLN"),
     (<<"personal", "PLN">> :> "Assets:Revolut:PLN")
        @@ (<<"personal", "USD">> :> "Assets:Revolut:USD")}

RevolutLoads ==
    {<<RevolutStatement("PLN", r1), RevolutStatement("USD", r2)>> :
        r1 \in RevolutRows("PLN"),
        r2 \in {<<>>, <<RevolutRow("USD", DateOf(0, 1, 1), -1, <<>>, RevolutOpening - 1)>>}}

InitRevolut ==
    /\ kind = "revolut"
    /\ account_map \in RevolutConfigs
    /\ default_account = None
    /\ statements \in RevolutLoads
    /\ today = DateOf(0, 1, 2)    \* the export is taken on the day of its last row

\* VeloBank: two PDF statements of two accounts and one credit-card HTML.
VelobankOpening == 2

VelobankFiles ==
    <<[filename |-> "a.pdf", account_iban |-> "PL11"],
      [filename |-> "b.pdf", account_iban |-> "PL22"],
      [filename |-> "cc.html", account_iban |-> ""]>>

VelobankRow(f, d, a, b, n) ==
    [booking_date |-> d, amount |-> a, balance_after |-> b, line_number |-> n,
     filename |-> f.filename]

VelobankRowSpecs == {<<d, a>> : d \in {DateOf(0, 1, 1), DateOf(0, 1, 2)}, a \in {-1, 1}}

VelobankRows(f) ==
    {<<>>}
    \cup {<<VelobankRow(f, x[1], x[2], VelobankOpening + x[2], 1)>> : x \in VelobankRowSpecs}
    \cup {<<VelobankRow(f, x[1], x[2], VelobankOpening + x[2], 1),
            VelobankRow(f, y[1], y[2], VelobankOpening + x[2] + y[2], 2)>> :
            x \in VelobankRowSpecs, y \in VelobankRowSpecs}

VelobankStatement(f, rows) ==
    [filename |-> f.filename, account_iban |-> f.account_iban,
     period_end |-> DateOf(0, 1, DaysPerMonth), transactions |-> rows]

VelobankConfigs ==
    {[map |-> ("PL11" :> "Assets:Velo:A"), default |-> None],
     [map |-> ("PL11" :> "Assets:Velo:A") @@ ("PL22" :> "Assets:Velo:B"), default |-> None],
     [map |-> ("PL11" :> "Assets:Velo:A"), default |-> "Assets:Velo:Other"]}

VelobankLoads ==
    {<<VelobankStatement(VelobankFiles[1], r1), VelobankStatement(VelobankFiles[2], r2),
       VelobankStatement(VelobankFiles[3], r3)>> :
        r1 \in VelobankRows(VelobankFiles[1]),
        r2 \in {<<>>, <<VelobankRow(VelobankFiles[2], DateOf(0, 1, 1), -1, VelobankOpening - 1, 1)>>},
        r3 \in {<<>>, <<VelobankRow(VelobankFiles[3], DateOf(0, 1, 1), -1, VelobankOpening - 1, 1)>>}}

InitVelobank ==
    /\ kind = "velobank"
    /\ \E c \in VelobankConfigs : account_map = c.map /\ default_account = c.default
    /\ statements \in VelobankLoads
    /\ today = DateOf(0, 4, 1)

\* MT940: two statement files, of one configured directory or of two.
Mt940Row(d, a, e, c) ==
    [value_date |-> d, amount |-> a, extra_details |-> e, customer_reference |-> c]

Mt940RowPool ==
    {Mt940Row(DateOf(0, 1, 1), -1, e, c) : e \in {0, 1}, c \in {1, 2}}

Mt940Rows ==
    {<<>>} \cup {<<x>> : x \in Mt940RowPool}
           \cup {<<x, y>> : x \in Mt940RowPool, y \in Mt940RowPool}

Mt940Statement(dir, f, cd, cb, rows) ==
    [directory |-> dir, filename |-> f, account_iban |-> "PL33", currency |-> "PLN",
     closing_date |-> cd, closing_balance |-> cb, transactions |-> rows]

Mt940Configs ==
    {("d1" :> "Assets:MT:A"),
     ("d1" :> "Assets:MT:A") @@ ("d2" :> "Assets:MT:B")}

\* _load_all_data walks the configured directories only
Mt940Loads(accounts) ==
    {<<Mt940Statement("d1", "1.sta", DateOf(0, 1, 1), 5, r1),
       Mt940Statement(d, "2.sta", DateOf(0, 1, 2), 4, r2)>> :
        r1 \in Mt940Rows, r2 \in {<<>>, <<Mt940Row(DateOf(0, 1, 2), -1, 0, 1)>>},
        d \in DOMAIN accounts}

InitMt940 ==
    /\ kind = "mt940"
    /\ account_map \in Mt940Configs
    /\ default_account = None
    /\ statements \in Mt940Loads(account_map)
    /\ today = DateOf(0, 4, 1)

Init ==
    /\ (InitZen \/ InitRevolut \/ InitVelobank \/ InitMt940)
    /\ eb_txn = <<>>
    /\ file_lines = <<>>
    /\ journal = <<>>
    /\ results = EmptyResults
    /\ valid_ids = {}
    /\ seen = <<>>
    /\ log = <<>>

\* ------------------------------------------------------------- operations

Count(tag) == Cardinality({i \in DOMAIN log : log[i] = tag})
Idle == IF log = <<>> THEN TRUE ELSE log[Len(log)] # "prepare"

\* The identifier of every loaded transaction, in load order.
LoadedIds ==
    CASE kind = "zen" ->
            LET T == ZenTransactions(statements)
            IN [i \in 1..Len(T) |-> Zen_generate_transaction_id(T[i].statement.iban, T[i].txn)]
      [] kind = "revolut" ->
            LET T == RevolutTransactions(statements)
            IN [i \in 1..Len(T) |-> RevolutTxnId(T, i)]
      [] kind = "velobank" ->
            Concat([s \in 1..Len(statements) |->
                [i \in 1..Len(statements[s].transactions) |->
                    Velobank_generate_transaction_id(statements[s].transactions[i])]])
      [] kind = "mt940" ->
            LET T == Mt940Transactions(statements)
            IN [i \in 1..Len(T) |-> Mt940TxnId(T, i)]

ProducedIds == Range(LoadedIds)

\* valid_ids as prepare has built it when it reaches its stale check
SourceValidIds ==
    CASE kind = "zen" -> ZenValidIds(statements)
      [] kind = "revolut" -> RevolutValidIds(statements)
      [] kind = "velobank" -> VelobankValidIds(statements)
      [] kind = "mt940" -> Mt940ValidIds(statements)

SourcePrepare(entries) ==
    CASE kind = "zen" -> ZenPrepare(statements, entries, today)
      [] kind = "revolut" -> RevolutPrepare(statements, entries)
      [] kind = "velobank" -> VelobankPrepare(statements, entries)
      [] kind = "mt940" -> Mt940Prepare(statements, entries)

\* A prepare that writes what it stages into the journal itself
Prepare_WritesLedger ==
    /\ Idle
    /\ Count("prepare") < MaxRuns
    /\ results' = SourcePrepare(journal)
    /\ valid_ids' = SourceValidIds
    /\ seen' = journal
    /\ log' = Append(log, "prepare")
    /\ journal' = journal \o [i \in 1..Len(SourcePrepare(journal).pending) |->
                                 SourcePrepare(journal).pending[i].entries[1]]
    /\ UNCHANGED <<eb_txn, file_lines, kind, account_map, default_account, statements, today>>

\* source.prepare(journal, results)
Prepare ==
    /\ Idle
    /\ Count("prepare") < MaxRuns
    /\ results' = SourcePrepare(journal)
    /\ valid_ids' = SourceValidIds
    /\ seen' = journal
    /\ log' = Append(log, "prepare")
    /\ UNCHANGED <<eb_txn, file_lines, kind, account_map, default_account, statements, today, journal>>

\* The write-back layer appends every pending entry of the run to the journal.
Commit ==
    /\ ~Idle
    /\ journal' = journal \o [i \in 1..Len(results.pending) |-> results.pending[i].entries[1]]
    /\ log' = Append(log, "commit")
    /\ UNCHANGED <<eb_txn, file_lines, kind, account_map, default_account, statements, today,
                   results, valid_ids, seen>>

\* The source_ref values a human may write: one a loaded transaction
\* produces, one of the source's namespace that no loaded transaction
\* produces, and one of another tool.
EditRefs ==
    ProducedIds \cup {<<kind, "gone">>, <<"manual", "x">>}

\* One account the source owns and one it does not.
EditAccounts == {CHOOSE a \in get_all_accounts : TRUE, "Assets:Other"}

\* A human adds a transaction whose posting carries a source_ref, or pastes
\* one in that carries an identifier of the source on two of its postings.
EditPostings(a, r) ==
    {<<Posting(a, 0, DEFAULT_CURRENCY, NoPrice, r)>>}
    \cup (IF r \in ProducedIds /\ a # "Assets:Other"
          THEN {<<Posting(a, 0, DEFAULT_CURRENCY, NoPrice, r),
                  Posting(a, 0, DEFAULT_CURRENCY, NoPrice, r)>>}
          ELSE {})

HumanEdit ==
    /\ Idle
    /\ Count("edit") < MaxEdits
    /\ \E a \in EditAccounts, r \in EditRefs :
          \E ps \in EditPostings(a, r) :
              journal' = Append(journal, Transaction(DateOf(0, 1, 1), ps))
    /\ log' = Append(log, "edit")
    /\ UNCHANGED <<eb_txn, file_lines, kind, account_map, default_account, statements, today,
                   results, valid_ids, seen>>

Next == Prepare \/ Commit \/ HumanEdit

Spec == Init /\ [][Next]_vars

\* A human deletes some of the transactions of the journal after a commit.
HumanRemove ==
    /\ log # <<>>
    /\ log[Len(log)] = "commit"
    /\ Count("remove") < MaxEdits
    /\ \E gone \in SUBSET {i \in DOMAIN journal : journal[i].type = "Transaction"} :
          /\ gone # {}
          /\ LET kept == SortInts(DOMAIN journal \ gone)
             IN journal' = [n \in 1..Len(kept) |-> journal[kept[n]]]
    /\ log' = Append(log, "remove")
    /\ UNCHANGED <<eb_txn, file_lines, kind, account_map, default_account, statements, today,
                   results, valid_ids, seen>>

SpecRemove == Init /\ [][Prepare \/ Commit \/ HumanRemove]_vars

\* ------------------------------------------------------------ construction

\* An account_map (accounts list) without entries
NoMap == [x \in {} |-> None]

\* The arguments a source may be constructed with
ConstructorArgs(k) ==
    CASE k = "zen" -> ZenConfigs \cup {[map |-> NoMap, default |-> None]}
      [] k = "revolut" ->
            {[map |-> m, default |-> None] : m \in RevolutConfigs \cup {NoMap}}
      [] k = "velobank" -> VelobankConfigs \cup {[map |-> NoMap, default |-> None]}
      [] k = "mt940" ->
            {[map |-> m, default |-> None] : m \in Mt940Configs \cup {NoMap}}

\* The configuration test of __init__: Zen and VeloBank want a mapping or a
\* default account, Revolut a mapping, Mt940Source.__init__ tests nothing.
RaisesValueError ==
    CASE kind = "zen" -> default_account = None /\ DOMAIN account_map = {}
      [] kind = "revolut" -> DOMAIN account_map = {}
      [] kind = "velobank" -> default_account = None /\ DOMAIN account_map = {}
      [] kind = "mt940" -> FALSE

\* What the loader of the constructor may leave in self.statements
Loads ==
    CASE kind = "zen" -> ZenLoads
      [] kind = "revolut" -> RevolutLoads
      [] kind = "velobank" -> VelobankLoads
      [] kind = "mt940" ->
            IF DOMAIN account_map = {} THEN {<<>>} ELSE Mt940Loads(account_map)

\* Before __init__ runs: the arguments are given, nothing is loaded.
InitConstruct ==
    /\ eb_txn = <<>>
    /\ file_lines = <<>>
    /\ kind \in {"zen", "revolut", "velobank", "mt940"}
    /\ \E c \in ConstructorArgs(kind) :
          account_map = c.map /\ default_account = c.default
    /\ statements = <<>>
    /\ today = DateOf(0, 4, 1)
    /\ journal = <<>>
    /\ results = EmptyResults
    /\ valid_ids = {}
    /\ seen = <<>>
    /\ log = <<>>

\* __init__ raises before it loads anything
ConstructRaises ==
    /\ log = <<>>
    /\ RaisesValueError
    /\ log' = <<"ValueError">>
    /\ UNCHANGED <<eb_txn, file_lines, kind, account_map, default_account, statements, today,
                   journal, results, valid_ids, seen>>

\* __init__ passes its test and loads the statement files
ConstructLoads ==
    /\ log = <<>>
    /\ ~RaisesValueError
    /\ statements' \in Loads
    /\ log' = <<"constructed">>
    /\ UNCHANGED <<eb_txn, file_lines, kind, account_map, default_account, today,
                   journal, results, valid_ids, seen>>

NextConstruct == ConstructRaises \/ ConstructLoads

SpecConstruct == InitConstruct /\ [][NextConstruct]_vars

\* What prepare reports about the transactions it drops for want of an
\* account: the branch "if target_account is None: continue" of Zen and
\* Revolut calls neither log_status nor any method of results, and no
\* source keeps a counter.
SkippedDiagnostics(entries) == <<>>

\* ------------------------------------------------------------ FX pairing

\* Statements of one day of exchanges between three currencies of one IBAN
ZenFxFiles ==
    <<[filename |-> "2025-03-EUR.csv", iban |-> "GB72", currency |-> "EUR", month |-> 1],
      [filename |-> "2025-03-PLN.csv", iban |-> "GB72", currency |-> "PLN", month |-> 1],
      [filename |-> "2025-03-USD.csv", iban |-> "GB72", currency |-> "USD", month |-> 1]>>

\* Rows of a file, from <<day, transaction type, settlement amount, original
\* amount, rate>>: parse_csv numbers row n from the "Transactions:" line.
ZenFxRows(f, max) ==
    LET specs ==
            {<<1, "Exchange money", -1, -1, 1>>, <<1, "Exchange money", 1, 1, 1>>,
             <<1, "Exchange money", -1, -2, 1>>, <<1, "Exchange money", 1, 1, 2>>,
             <<2, "Exchange money", -1, -1, 1>>, <<1, "Card payment", -1, -1, 1>>}
        row(spec, n) ==
            [date |-> DateOf(0, f.month, spec[1]), transaction_type |-> spec[2],
             settlement_amount |-> spec[3], settlement_currency |-> f.currency,
             original_amount |-> spec[4], currency_rate |-> spec[5], balance_after |-> 0,
             line_number |-> 17 + n]
    IN  {<<>>}
        \cup {<<row(a, 1)>> : a \in specs}
        \cup (IF max < 2 THEN {}
              ELSE {<<row(a, 1), row(b, 2)>> : a \in specs, b \in specs})

ZenFxLoads ==
    {<<ZenStatement(ZenFxFiles[1], r1), ZenStatement(ZenFxFiles[2], r2),
       ZenStatement(ZenFxFiles[3], r3)>> :
        r1 \in ZenFxRows(ZenFxFiles[1], 2), r2 \in ZenFxRows(ZenFxFiles[2], 2),
        r3 \in ZenFxRows(ZenFxFiles[3], 1)}

InitFx ==
    /\ eb_txn = <<>>
    /\ file_lines = <<>>
    /\ kind = "zen"
    /\ account_map = (<<"GB72", "PLN">> :> "Assets:Zen:PLN")
    /\ default_account \in {None, "Assets:Zen:Unknown"}
    /\ statements \in ZenFxLoads
    /\ today = DateOf(0, 4, 1)
    /\ journal = <<>>
    /\ results = EmptyResults
    /\ valid_ids = {}
    /\ seen = <<>>
    /\ log = <<>>

\* self._find_fx_pairs(): results holds the returned triple
FindFxPairs ==
    /\ log = <<>>
    /\ results' = Zen_find_fx_pairs(ZenTransactions(statements))
    /\ log' = <<"find_fx_pairs">>
    /\ UNCHANGED <<eb_txn, file_lines, kind, account_map, default_account, statements, today,
                   journal, valid_ids, seen>>

SpecFx == InitFx /\ [][FindFxPairs]_vars

\* ---------------------------------------------------------- CSV loading

\* datetime.strptime(text, "%d %b %Y"), then "%Y-%m-%d": <<date>>, or <<>>
\* for the ValueError raised otherwise
parse_zen_date(text) ==
    CASE text = "1 Jan 2025" -> <<DateOf(0, 1, 1)>>
      [] text = "2025-01-02" -> <<DateOf(0, 1, 2)>>
      [] OTHER -> <<>>

\* Decimal(text) in minor units as <<n>>, or <<>> when text is no number
ParseDecimal(text) ==
    CASE text = "-15.00" -> <<-1500>>
      [] text = "744.28" -> <<74428>>
      [] OTHER -> <<>>

\* The exception beancount's D() raises for a text that is no number is not
\* fixed by this code: decimal.InvalidOperation is caught by
\* parse_zen_amount, any other exception leaves it.

\* <<amount>>, or <<>> when the exception leaves parse_zen_amount
parse_zen_amount(text, exc) ==
    IF text = "" THEN <<0>>
    ELSE IF ParseDecimal(text) # <<>> THEN ParseDecimal(text)
    ELSE IF exc = "InvalidOperation" THEN <<0>>
    ELSE <<>>

\* The rows csv.DictReader may yield: at most two, of the columns read
CsvFiles ==
    LET rows == [Date : {"1 Jan 2025", "2025-01-02", "",
                         "This is a computer generated statement", "32 Jan 2025"},
                 Settlement_amount : {"-15.00", "", "abc"},
                 Balance : {"744.28", "", "abc"}]
    IN {<<>>} \cup {<<r>> : r \in rows} \cup {<<r, q>> : r \in rows, q \in rows}

\* The loop of parse_csv over the rows from row n on: the transactions it
\* appends, or the exception that ends it
RECURSIVE parse_csv_rows(_, _, _)
parse_csv_rows(rows, n, exc) ==
    IF n > Len(rows) THEN [raised |-> None, transactions |-> <<>>]
    ELSE LET row == rows[n]
             rest == parse_csv_rows(rows, n + 1, exc)
             settlement_amount == parse_zen_amount(row.Settlement_amount, exc)
             balance_after == parse_zen_amount(row.Balance, exc)
         IN IF row.Date = "" \/ row.Date = "This is a computer generated statement"
               \/ parse_zen_date(row.Date) = <<>>
            THEN rest
            ELSE IF settlement_amount = <<>> \/ balance_after = <<>>
            THEN [raised |-> "ValueError", transactions |-> <<>>]
            ELSE IF rest.raised # None THEN rest
            ELSE [raised |-> None,
                  transactions |->
                      <<[date |-> parse_zen_date(row.Date)[1],
                         transaction_type |-> "Card payment",
                         settlement_amount |-> settlement_amount[1],
                         settlement_currency |-> "PLN",
                         original_amount |-> settlement_amount[1],
                         currency_rate |-> 1,
                         balance_after |-> balance_after[1],
                         line_number |-> 17 + n]>> \o rest.transactions]

InitLoad ==
    /\ eb_txn = <<>>
    /\ file_lines \in CsvFiles
    /\ kind = "zen"
    /\ account_map = (<<"GB72", "PLN">> :> "Assets:Zen:PLN")
    /\ default_account = None
    /\ statements = <<>>
    /\ today = DateOf(0, 4, 1)
    /\ journal = <<>>
    /\ results = EmptyResults
    /\ valid_ids = {}
    /\ seen = <<>>
    /\ log = <<>>

\* _load_all_data over a directory holding the one file: parse_csv, then
\* self.statements.append(statement); an exception of parse_csv leaves
\* _load_all_data and the constructor
LoadCsv ==
    /\ log = <<>>
    /\ \E exc \in {"InvalidOperation", "ValueError"} :
          LET r == parse_csv_rows(file_lines, 1, exc)
          IN IF r.raised # None
             THEN /\ statements' = <<>>
                  /\ log' = <<"load", r.raised>>
             ELSE /\ statements' = <<ZenStatement(ZenFiles[2], r.transactions)>>
                  /\ log' = <<"load">>
    /\ UNCHANGED <<eb_txn, file_lines, kind, account_map, default_account, today,
                   journal, results, valid_ids, seen>>

SpecLoad == InitLoad /\ [][LoadCsv]_vars

\* ------------------------------------------------- EnableBanking rules

\* Texts are sequences of tokens: a word, "," or a run "   " of three
\* spaces.  An absent (None) or empty name is the empty sequence, an absent
\* or empty bank_transaction_code is "", and remittance_information is <<>>
\* for None and <<list>> for a list.
RECURSIVE TakeUntil(_, _)
TakeUntil(tokens, sep) ==
    IF tokens = <<>> \/ Head(tokens) = sep THEN <<>>
    ELSE <<Head(tokens)>> \o TakeUntil(Tail(tokens), sep)

\* str.strip() over the tokens
RECURSIVE Strip(_)
Strip(tokens) ==
    IF tokens = <<>> THEN <<>>
    ELSE IF Head(tokens) = "   " THEN Strip(Tail(tokens))
    ELSE IF tokens[Len(tokens)] = "   " THEN Strip(SubSeq(tokens, 1, Len(tokens) - 1))
    ELSE tokens

\* str.lower() of the bank names and file names in use
Lower(text) ==
    CASE text \in {"Revolut", "REVOLUT", "revolut"} -> "revolut"
      [] text \in {"cc.html", "CC.HTML"} -> "cc.html"
      [] text \in {"mBank", "mbank"} -> "mbank"
      [] text \in {"Pekao", "pekao"} -> "pekao"
      [] OTHER -> text

\* The members of KNOWN_TRANSACTION_TYPES written in ASCII
KNOWN_TRANSACTION_TYPES ==
    {"BLIK", "PRZELEW", "PODATKI", "PROWIZJA", "ODSETKI", "KAPITALIZACJA ODSETEK",
     "CARD_PAYMENT", "OTP_PAYMENT", "TRANSFER", "FEE",
     "ATM", "EXCHANGE", "PRZELEW KRAJOWY", "PRZELEW ZAGRANICZNY"}

ParsedTransaction(payee, narration, transaction_type) ==
    [payee |-> payee, narration |-> narration, transaction_type |-> transaction_type]

EbRemittance(t) == t.remittance_information[1]

\* "True", "False" or "TypeError" (len() of None)
has_two_remittance_lines(t) ==
    IF t.remittance_information = <<>> THEN "TypeError"
    ELSE IF Len(EbRemittance(t)) = 2 THEN "True" ELSE "False"

get_counterparty(t) ==
    LET name == IF t.credit_debit_indicator = "CRDT" THEN t.debtor_name
                ELSE t.creditor_name
    IN IF name = <<>> THEN <<>>
       ELSE IF "," \in Range(name) THEN Strip(TakeUntil(name, ","))
       ELSE Strip(TakeUntil(name, "   "))

\* <<value>> when value is a known type, <<>> for None
get_transaction_type_if_known(value) ==
    IF value \in KNOWN_TRANSACTION_TYPES THEN <<value>> ELSE <<>>

GENERIC_RULES ==
    <<"generic_two_lines_with_counterparty", "generic_two_lines_no_counterparty",
      "generic_single_line", "generic_counterparty_only">>

\* BANK_RULES.items() in the order of the dictionary
BANK_RULES ==
    <<[bank_name |-> "mbank", rules |-> <<>>],
      [bank_name |-> "Revolut", rules |-> <<"card_payment">>],
      [bank_name |-> "pekao", rules |-> <<>>]>>

\* rule.condition(txn): "True", "False", or the exception raised
RuleCondition(rule, t) ==
    CASE rule = "generic_two_lines_with_counterparty" ->
            IF has_two_remittance_lines(t) # "True" THEN has_two_remittance_lines(t)
            ELSE IF get_counterparty(t) # <<>> THEN "True" ELSE "False"
      [] rule = "generic_two_lines_no_counterparty" ->
            IF has_two_remittance_lines(t) # "True" THEN has_two_remittance_lines(t)
            ELSE IF get_counterparty(t) = <<>> THEN "True" ELSE "False"
      [] rule = "generic_single_line" ->
            IF t.remittance_information = <<>> THEN "TypeError"
            ELSE IF Len(EbRemittance(t)) = 1 THEN "True" ELSE "False"
      [] rule = "generic_counterparty_only" ->
            IF t.remittance_information = <<>> THEN "TypeError"
            ELSE IF Len(EbRemittance(t)) = 0 /\ get_counterparty(t) # <<>>
                 THEN "True" ELSE "False"
      [] rule = "card_payment" ->
            IF /\ t.bank_transaction_code \in {"CARD_PAYMENT", "OTP_PAYMENT"}
               /\ t.remittance_information # <<>>
               /\ EbRemittance(t) # <<>>
            THEN "True" ELSE "False"

\* rule.extract(txn), for a transaction the rule's condition holds for
RuleExtract(rule, t) ==
    CASE rule = "generic_two_lines_with_counterparty" ->
            ParsedTransaction(get_counterparty(t), <<EbRemittance(t)[1]>>,
                              get_transaction_type_if_known(EbRemittance(t)[2]))
      [] rule = "generic_two_lines_no_counterparty" ->
            ParsedTransaction(<<EbRemittance(t)[1]>>, <<EbRemittance(t)[2]>>,
                              get_transaction_type_if_known(EbRemittance(t)[2]))
      [] rule = "generic_single_line" ->
            ParsedTransaction(IF get_counterparty(t) # <<>> THEN get_counterparty(t)
                              ELSE <<t.bank>>,
                              <<EbRemittance(t)[1]>>,
                              get_transaction_type_if_known(EbRemittance(t)[1]))
      [] rule = "generic_counterparty_only" ->
            ParsedTransaction(get_counterparty(t),
                              IF t.bank_transaction_code # ""
                              THEN <<t.bank_transaction_code>> ELSE <<"Transaction">>,
                              IF t.bank_transaction_code # ""
                              THEN get_transaction_type_if_known(t.bank_transaction_code)
                              ELSE <<>>)
      [] rule = "card_payment" ->
            ParsedTransaction(<<EbRemittance(t)[1]>>, <<t.bank_transaction_code>>,
                              <<t.bank_transaction_code>>)

\* The rules of the first entry of BANK_RULES whose name equals the bank's
\* in lower case; <<>> when there is none
BankRulesFor(t) ==
    LET hits == {i \in DOMAIN BANK_RULES : Lower(BANK_RULES[i].bank_name) = Lower(t.bank)}
    IN IF hits = {} THEN <<>> ELSE BANK_RULES[MinOf(hits)].rules

\* One of the two loops "for rule in rules: try: if rule.condition(txn):
\* return rule.extract(txn) except ...: continue": <<result>>, or <<>>
\* when the loop ends without returning
RECURSIVE TryRules(_, _)
TryRules(rules, t) ==
    IF rules = <<>> THEN <<>>
    ELSE IF RuleCondition(Head(rules), t) = "True" THEN <<RuleExtract(Head(rules), t)>>
    ELSE TryRules(Tail(rules), t)

\* <<ParsedTransaction>>, or <<>> for None
get_parsed_transaction_GenericFirst(t) ==
    LET generic == TryRules(GENERIC_RULES, t)
    IN IF generic # <<>> THEN generic ELSE TryRules(BankRulesFor(t), t)

get_parsed_transaction(t) ==
    LET bank == TryRules(BankRulesFor(t), t)
    IN IF bank # <<>> THEN bank ELSE TryRules(GENERIC_RULES, t)

EbTransactions ==
    [bank : {"Revolut", "REVOLUT", "mBank", "Other"},
     bank_transaction_code : {"", "CARD_PAYMENT", "TRANSFER", "misc"},
     remittance_information :
         {<<>>} \cup {<<r>> : r \in {<<>>, <<"Title">>, <<"BLIK">>, <<"Title", "BLIK">>,
                                     <<"Title", "Other">>, <<"a", "b", "c">>}},
     credit_debit_indicator : {"CRDT", "DBIT"},
     debtor_name : {<<>>, <<"Bob">>, <<"ACME", ",", "Street">>,
                    <<"ACME", "   ", "Street">>, <<"   ", "Street">>},
     creditor_name : {<<>>, <<"Bob">>}]

InitRules ==
    /\ eb_txn \in EbTransactions
    /\ file_lines = <<>>
    /\ kind = "enablebanking"
    /\ account_map = NoMap
    /\ default_account = None
    /\ statements = <<>>
    /\ today = DateOf(0, 4, 1)
    /\ journal = <<>>
    /\ results = <<>>
    /\ valid_ids = {}
    /\ seen = <<>>
    /\ log = <<>>

\* A call of get_parsed_transaction(txn); results holds what it returns
GetParsedTransaction ==
    /\ log = <<>>
    /\ results' = get_parsed_transaction(eb_txn)
    /\ log' = <<"get_parsed_transaction">>
    /\ UNCHANGED <<eb_txn, file_lines, kind, account_map, default_account, statements,
                   today, journal, valid_ids, seen>>

SpecRules == InitRules /\ [][GetParsedTransaction]_vars

\* ------------------------------------------------- VeloBank new format

NewFormatOpening == 10

\* The transaction lines of a new-format statement whose running balance
\* starts from NewFormatOpening: the printed amount is unsigned, the printed
\* balance is the one after the transaction.  form tells what the patterns
\* of _parse_new_format_transactions make of the line: "line" matches
\* txn_pattern, "bad_date" matches it with a date parse_polish_date rejects,
\* "page_break" matches txn_no_desc_pattern and is followed by a description
\* holding one of the keywords, "page_break_other" by one holding none.
RECURSIVE NewFormatLines(_, _)
NewFormatLines(signed, opening) ==
    IF signed = <<>> THEN <<>>
    ELSE <<[form |-> Head(signed)[1], amount_abs |-> Abs(Head(signed)[2]),
            balance |-> opening + Head(signed)[2]]>>
         \o NewFormatLines(Tail(signed), opening + Head(signed)[2])

\* The statement texts handed to the parser, with the opening balance
\* parse_new_format found (<<>> when it found none)
NewFormatInputs ==
    LET one == {"line", "bad_date", "page_break", "page_break_other"} \X {-2, 2, 5, 0}
        signed == {<<>>} \cup {<<a>> : a \in one} \cup {<<a, b>> : a \in one, b \in one}
                  \cup {<<a, b, c>> : a \in one, b \in one, c \in {<<"line", -2>>, <<"line", 5>>}}
    IN {[opening_balance |-> o, lines |-> NewFormatLines(x, NewFormatOpening)] :
            o \in {<<>>, <<NewFormatOpening>>}, x \in signed}

\* The first loop: the raw transactions appended, line i being lines[i]
new_format_raw_transactions(lines) ==
    SelectSeq([i \in DOMAIN lines |->
                  [amount_abs |-> lines[i].amount_abs, balance_after |-> lines[i].balance,
                   line_number |-> i, form |-> lines[i].form]],
              LAMBDA raw : raw.form \in {"line", "page_break"} /\ raw.amount_abs # 0)

\* The second loop over raw_transactions from position n on
RECURSIVE new_format_infer_signs(_, _, _)
new_format_infer_signs(raw_transactions, n, prev_balance) ==
    IF n > Len(raw_transactions) THEN <<>>
    ELSE LET amount_abs == raw_transactions[n].amount_abs
             balance == raw_transactions[n].balance_after
             amount ==
                 IF prev_balance # <<>> /\ amount_abs # 0
                 THEN LET diff_pos == Abs(prev_balance[1] + amount_abs - balance)
                          diff_neg == Abs(prev_balance[1] - amount_abs - balance)
                      IN IF diff_neg < diff_pos THEN -amount_abs ELSE amount_abs
                 ELSE amount_abs
         IN <<[amount |-> amount, balance_after |-> balance,
               line_number |-> raw_transactions[n].line_number]>>
            \o new_format_infer_signs(raw_transactions, n + 1, <<balance>>)

parse_new_format_transactions(lines, opening_balance) ==
    new_format_infer_signs(new_format_raw_transactions(lines), 1, opening_balance)

InitNewFormat ==
    /\ eb_txn = <<>>
    /\ file_lines \in NewFormatInputs
    /\ kind = "velobank"
    /\ account_map = ("PL11" :> "Assets:Velo:A")
    /\ default_account = None
    /\ statements = <<>>
    /\ today = DateOf(0, 4, 1)
    /\ journal = <<>>
    /\ results = EmptyResults
    /\ valid_ids = {}
    /\ seen = <<>>
    /\ log = <<>>

\* parse_new_format: statements holds the transactions of the statement
ParseNewFormat ==
    /\ log = <<>>
    /\ statements' = parse_new_format_transactions(file_lines.lines,
                                                   file_lines.opening_balance)
    /\ log' = <<"parse_new_format">>
    /\ UNCHANGED <<eb_txn, file_lines, kind, account_map, default_account, today,
                   journal, results, valid_ids, seen>>

SpecNewFormat == InitNewFormat /\ [][ParseNewFormat]_vars

\* ------------------------------------- VeloBank credit-card HTML statements

\* A file of the directory: its name, whether its text holds "karty
\* kredytowej", the closing balance and the rows of its table, where a
\* charge is positive.
HtmlInputs ==
    LET pool == {[booking_date |-> d, amount |-> a] :
                    d \in {DateOf(0, 1, 1), DateOf(0, 1, 2)}, a \in {-1, 1}}
        rows == {<<>>} \cup {<<x>> : x \in pool}
                       \cup {<<x, y>> : x \in pool, y \in pool}
                       \cup {<<x, y, z>> : x \in pool, y \in pool, z \in pool}
    IN  {[filename |-> f, credit_card |-> c, closing_balance |-> b, transactions |-> r] :
            f \in {"cc.html", "CC.HTML"}, c \in BOOLEAN, b \in {-2, 0}, r \in rows}

\* The amounts are negated, the rows sorted by booking date (list.sort is
\* stable), the balances computed backwards from the closing balance, and
\* the rows numbered from 1 in that order.
parse_credit_card_html(html_path, closing_balance, rows) ==
    LET n == Len(rows)
        order == SortInts({rows[i].booking_date * (n + 1) + i : i \in 1..n})
        parsed_txns == [k \in 1..n |->
                           LET i == order[k] % (n + 1)
                           IN [booking_date |-> rows[i].booking_date,
                               amount |-> 0 - rows[i].amount]]
        balances[k \in 1..n] ==
            IF k = n THEN closing_balance ELSE balances[k + 1] - parsed_txns[k + 1].amount
    IN  VelobankStatement([filename |-> html_path, account_iban |-> ""],
            [k \in 1..n |->
                VelobankRow([filename |-> html_path], parsed_txns[k].booking_date,
                            parsed_txns[k].amount, balances[k], k)])

InitHtml ==
    /\ eb_txn = <<>>
    /\ file_lines \in HtmlInputs
    /\ kind = "velobank"
    /\ account_map = ("PL11" :> "Assets:Velo:A")
    /\ default_account = None
    /\ statements = <<>>
    /\ today = DateOf(0, 4, 1)
    /\ journal = <<>>
    /\ results = EmptyResults
    /\ valid_ids = {}
    /\ seen = <<>>
    /\ log = <<>>

\* _load_statements on a directory of one file: the file is collected when
\* its lowered name ends in ".html", and parsed when it is a credit-card
\* statement
LoadHtml ==
    /\ log = <<>>
    /\ statements' =
            IF IsHtml(Lower(file_lines.filename)) /\ file_lines.credit_card
            THEN <<parse_credit_card_html(file_lines.filename, file_lines.closing_balance,
                                          file_lines.transactions)>>
            ELSE <<>>
    /\ log' = <<"load_statements">>
    /\ UNCHANGED <<eb_txn, file_lines, kind, account_map, default_account, today,
                   journal, results, valid_ids, seen>>

SpecHtml == InitHtml /\ [][LoadHtml]_vars

\* ------------------------------------------------------- claim vocabulary

\* prepare has just returned: results were computed from the journal as it is
AfterPrepare == ~Idle

NoEdits == Count("edit") = 0

\* The source_ref values carried by the postings of the journal
JournalRefs ==
    LET ps == AllPostings(journal)
    IN {ps[i][2].meta : i \in DOMAIN ps} \ {NoRef}

\* How many journal postings carry ref, how many loaded transactions produce it
CountPostings(ref) ==
    Cardinality({i \in DOMAIN AllPostings(journal) : AllPostings(journal)[i][2].meta = ref})

CountLoaded(ref) == Cardinality({i \in DOMAIN LoadedIds : LoadedIds[i] = ref})

\* Number of references of ref in the ledger index prepare has built
IndexCount(ref) == Len(MatchedGet(journal, get_all_accounts, ref))

\* The staged entries that are transactions, and those carrying ref
PendingTransactions ==
    {k \in DOMAIN results.pending : results.pending[k].entries[1].type = "Transaction"}

PendingWith(ref) ==
    {k \in PendingTransactions :
        \E p \in DOMAIN results.pending[k].entries[1].postings :
            results.pending[k].entries[1].postings[p].meta = ref}

\* The Invalid References recorded for ref
InvalidFor(ref) ==
    {k \in DOMAIN results.invalid :
        results.invalid[k].transaction_posting_pairs[1][2].meta = ref}

\* ------------------------------------------------------------------ claims

\* C1: starting from a ledger without source_ref, after any
\* number of (ZenSource.prepare, commit every staged entry) repetitions no
\* identifier is carried by more than one ledger posting.
C1_NoIdentifierTwice ==
    (kind = "zen" /\ NoEdits) => \A r \in JournalRefs : CountPostings(r) <= 1

\* C2: after every Pending Entry of one run has been committed, a second
\* run of prepare over the same statements stages no Pending Entry of any
\* kind and records no Invalid Reference.
C2_SecondRunIsEmpty ==
    (NoEdits /\ AfterPrepare /\ Count("prepare") >= 2)
        => (results.pending = <<>> /\ results.invalid = <<>>)

\* Both sides of the exchange a Zen transaction is paired in (the
\* transaction alone when it is not paired) resolve to a ledger account.
ZenMapped(T, i) ==
    LET fx == Zen_find_fx_pairs(T)
    IN /\ Zen_get_account_for_id(ZenAccountId(T[i].statement)) # None
       /\ \A k \in DOMAIN fx.pairs :
            i \in {fx.pairs[k].src, fx.pairs[k].tgt}
                => /\ Zen_get_account_for_id(ZenAccountId(T[fx.pairs[k].src].statement)) # None
                   /\ Zen_get_account_for_id(ZenAccountId(T[fx.pairs[k].tgt].statement)) # None

\* C3: every loaded Zen transaction whose accounts are mapped and whose
\* identifier has no reference in the ledger index gets a staged pending
\* transaction with a posting carrying that identifier.
C3_UnmatchedIsStaged ==
    (kind = "zen" /\ AfterPrepare) =>
        LET T == ZenTransactions(statements)
        IN \A i \in DOMAIN T :
            (ZenMapped(T, i) /\ IndexCount(LoadedIds[i]) = 0)
                => PendingWith(LoadedIds[i]) # {}

\* C4: when every loaded transaction is mapped and the ledger holds no
\* posting with any of their identifiers (here: no source_ref at all, and
\* the N identifiers pairwise distinct), one
\* run of prepare stages one pending transaction per observed transaction
\* (the single entry of a Zen FX pair counted for both of its transactions),
\* N at most in all, and records no Invalid Reference.
AllMapped ==
    CASE kind = "zen" ->
            \A s \in DOMAIN statements :
                Zen_get_account_for_id(ZenAccountId(statements[s])) # None
      [] kind = "revolut" ->
            LET T == RevolutTransactions(statements)
            IN \A i \in DOMAIN T : Revolut_get_account_for_id(RevolutAccountId(T, i)) # None
      [] kind = "velobank" ->
            \A s \in DOMAIN statements :
                Velobank_get_account_for_iban(statements[s].account_iban) # None
      [] kind = "mt940" -> TRUE

C4_Conservation ==
    (/\ kind \in {"zen", "revolut"} /\ AfterPrepare /\ AllMapped /\ JournalRefs = {}
     /\ Cardinality(ProducedIds) = Len(LoadedIds))
        => /\ Cardinality(PendingTransactions) <= Len(LoadedIds)
           /\ \A i \in DOMAIN LoadedIds : Cardinality(PendingWith(LoadedIds[i])) = 1
           /\ results.invalid = <<>>

\* An Invalid Reference of the stale check: its count is not that of a duplicate
StaleFor(ref) ==
    {k \in InvalidFor(ref) :
        results.invalid[k].num_extras
            # Len(results.invalid[k].transaction_posting_pairs) - 1}

\* C5: when ZenSource.prepare reaches its stale check, valid_ids holds the
\* identifier of every loaded transaction, and no ledger posting whose
\* identifier a loaded transaction produces is reported as stale.
C5_ValidIdsComplete ==
    (kind = "zen" /\ AfterPrepare)
        => /\ ProducedIds \subseteq valid_ids
           /\ \A r \in ProducedIds : StaleFor(r) = {}

\* C6: an identifier with k >= 2 references in the ledger index that exactly
\* one loaded transaction produces gets exactly one Invalid Reference, with
\* count k - 1 and listing all k (entry, posting) pairs.
C6_DuplicateDetection ==
    AfterPrepare =>
        \A r \in ProducedIds :
            (IndexCount(r) >= 2 /\ CountLoaded(r) = 1)
                => /\ Cardinality(InvalidFor(r)) = 1
                   /\ \A k \in InvalidFor(r) :
                        /\ results.invalid[k].num_extras = IndexCount(r) - 1
                        /\ results.invalid[k].transaction_posting_pairs
                               = MatchedGet(journal, get_all_accounts, r)

\* C7: every Invalid Reference recorded for a stale identifier (in the
\* ledger index, produced by no loaded transaction) has count equal to the
\* number of ledger references of that identifier, for every source.
C7_StaleCount ==
    AfterPrepare =>
        \A k \in DOMAIN results.invalid :
            LET r == results.invalid[k].transaction_posting_pairs[1][2].meta
            IN r \notin ProducedIds => results.invalid[k].num_extras = IndexCount(r)

IndexKeys == Range(MatchedKeys(journal, get_all_accounts))

\* C8 (as stated): every key of the ledger index, whatever its text, that is
\* absent from valid_ids gets an Invalid Reference.
C8_StaleCoverageAnyText ==
    AfterPrepare =>
        \A r \in IndexKeys : r \notin valid_ids => InvalidFor(r) # {}

\* C8 (amended): every key of the ledger index absent from valid_ids gets an
\* Invalid Reference, except that Revolut and MT940 report only the keys
\* in their own namespace ("revolut:", "mt940:").
C8_StaleCoverageOwnNamespace ==
    AfterPrepare =>
        \A r \in IndexKeys :
            (r \notin valid_ids /\ (kind \in {"revolut", "mt940"} => r[1] = kind))
                => InvalidFor(r) # {}

C8_Witness ==
    /\ AfterPrepare /\ kind = "mt940"
    /\ \E r \in IndexKeys : r \notin valid_ids /\ r[1] = kind /\ InvalidFor(r) # {}

\* C9: for an observed transaction whose identifier has exactly one
\* reference in the ledger index prepare stages no pending transaction and
\* records no Invalid Reference for that identifier.
C9_SingleReferenceNoAction ==
    AfterPrepare =>
        \A r \in ProducedIds :
            IndexCount(r) = 1 => (PendingWith(r) = {} /\ InvalidFor(r) = {})

\* The weight of a posting (units, or units times its per-unit price) as a
\* fraction <<numerator, denominator, currency>>
Weight(p) ==
    IF p.price = NoPrice THEN <<p.units, 1, p.currency>>
    ELSE <<p.units * p.price[1], p.price[2], p.price[3]>>

RECURSIVE SumWeights(_, _)
SumWeights(postings, c) ==
    IF postings = <<>> THEN <<0, 1>>
    ELSE LET w == Weight(Head(postings))
             rest == SumWeights(Tail(postings), c)
         IN IF w[3] = c THEN <<w[1] * rest[2] + rest[1] * w[2], w[2] * rest[2]>>
            ELSE rest

\* C10: in every transaction a source synthesizes the posting amounts (each
\* converted at its price, if it has one) sum to exactly zero per currency.
C10_ZeroSum ==
    AfterPrepare =>
        \A k \in PendingTransactions :
            LET postings == results.pending[k].entries[1].postings
            IN \A p \in DOMAIN postings :
                   SumWeights(postings, Weight(postings[p])[3])[1] = 0

\* The ledger account each loaded transaction resolves to (None when its
\* owning account id has neither a mapping entry nor a fallback), in the
\* order of LoadedIds
LoadedAccounts ==
    CASE kind = "zen" ->
            LET T == ZenTransactions(statements)
            IN [i \in 1..Len(T) |-> Zen_get_account_for_id(ZenAccountId(T[i].statement))]
      [] kind = "revolut" ->
            LET T == RevolutTransactions(statements)
            IN [i \in 1..Len(T) |-> Revolut_get_account_for_id(RevolutAccountId(T, i))]
      [] kind = "velobank" ->
            Concat([s \in 1..Len(statements) |->
                [i \in 1..Len(statements[s].transactions) |->
                    Velobank_get_account_for_iban(statements[s].account_iban)]])
      [] kind = "mt940" ->
            LET T == Mt940Transactions(statements)
            IN [i \in 1..Len(T) |-> T[i].account]

\* The accounts a staged entry is booked on
EntryAccounts(e) ==
    IF e.type = "Transaction" THEN {e.postings[p].account : p \in DOMAIN e.postings}
    ELSE {e.account}

\* C11: a transaction whose owning account id has neither a mapping entry
\* nor a fallback account is dropped: no Pending Entry is staged for it, in
\* particular none whose account is undefined (Zen, Revolut, VeloBank).
C11_UnmappedIsDropped ==
    (AfterPrepare /\ kind \in {"zen", "revolut", "velobank"}) =>
        /\ \A k \in DOMAIN results.pending :
               None \notin EntryAccounts(results.pending[k].entries[1])
        /\ \A i \in DOMAIN LoadedIds :
               (\A j \in DOMAIN LoadedIds :
                    LoadedIds[j] = LoadedIds[i] => LoadedAccounts[j] = None)
                   => PendingWith(LoadedIds[i]) = {}

\* The loaded transactions prepare drops because their account is unmapped
Dropped ==
    {i \in DOMAIN LoadedIds : LoadedAccounts[i] = None /\ IndexCount(LoadedIds[i]) = 0}

\* C12: every observed transaction dropped because its account is unmapped
\* is reported through a countable "skipped" diagnostic: after a run the
\* caller can read off the number of dropped transactions.
C12_DroppedAreCounted ==
    (AfterPrepare /\ kind \in {"zen", "revolut"}) =>
        Len(SkippedDiagnostics(journal)) = Cardinality(Dropped)

\* C13: constructing a source with no account mapping at all and no
\* default account raises a configuration error in the constructor, before
\* any statement is loaded: no source object exists without an account.
C13_NoAccountsRaises ==
    /\ log = <<"constructed">> => get_all_accounts # {}
    /\ log = <<"ValueError">> => statements = <<>>

\* The calendar month of a date, counted from year 0, and the first day of
\* the month after it
YearMonth(d) == YearOf(d) * 12 + (MonthOf(d) - 1)
FirstOfNext(m) == DateOf((m + 1) \div 12, ((m + 1) % 12) + 1, 1)

\* The staged balance assertions of an account with a given date
PendingBalances(account, date) ==
    {k \in DOMAIN results.pending :
        /\ results.pending[k].entries[1].type = "Balance"
        /\ results.pending[k].entries[1].account = account
        /\ results.pending[k].entries[1].date = date}

\* C14: for each mapped account and each calendar month other than the
\* current one in which the account has a loaded transaction,
\* ZenSource.prepare stages exactly one balance assertion, dated the first
\* day of the following month, asserting the balance after the
\* chronologically last loaded transaction of the account in that month.
C14_MonthlyBalance ==
    (kind = "zen" /\ AfterPrepare) =>
        LET T == ZenTransactions(statements)
        IN \A i \in DOMAIN T :
            LET a == LoadedAccounts[i]
                m == YearMonth(T[i].txn.date)
                mine == {j \in DOMAIN T :
                            LoadedAccounts[j] = a /\ YearMonth(T[j].txn.date) = m}
                last == {j \in mine : \A h \in mine : T[h].txn.date <= T[j].txn.date}
            IN (a # None /\ m # YearMonth(today))
                => /\ Cardinality(PendingBalances(a, FirstOfNext(m))) = 1
                   /\ \A k \in PendingBalances(a, FirstOfNext(m)) :
                        results.pending[k].entries[1].amount
                            \in {T[j].txn.balance_after : j \in last}

\* C15: no source stages a balance assertion for a period that is still open
\* at the time of the run: the period a staged balance assertion covers (it
\* ends the day before the assertion's date) ended before the current date.
C15_NoOpenPeriod ==
    AfterPrepare =>
        \A k \in DOMAIN results.pending :
            LET e == results.pending[k].entries[1]
            IN  e.type = "Balance" => e.date - 1 < today

\* The fields of each loaded transaction that a statement reports stably:
\* date, signed amount and running balance (an MT940 transaction line carries
\* no running balance), parallel to LoadedIds.
LoadedStableFields ==
    CASE kind = "zen" ->
            LET T == ZenTransactions(statements)
            IN [i \in 1..Len(T) |->
                   <<T[i].txn.date, T[i].txn.settlement_amount, T[i].txn.balance_after>>]
      [] kind = "revolut" ->
            LET T == RevolutTransactions(statements)
            IN [i \in 1..Len(T) |->
                   <<T[i].txn.date, T[i].txn.amount, T[i].txn.balance_after>>]
      [] kind = "velobank" ->
            Concat([s \in 1..Len(statements) |->
                [i \in 1..Len(statements[s].transactions) |->
                    <<statements[s].transactions[i].booking_date,
                      statements[s].transactions[i].amount,
                      statements[s].transactions[i].balance_after>>]])
      [] kind = "mt940" ->
            LET T == Mt940Transactions(statements)
            IN [i \in 1..Len(T) |-> <<T[i].txn.value_date, T[i].txn.amount, None>>]

\* C16: in every source the identifier is a function of the stable fields
\* and the source namespace only: two loaded transactions that agree on date,
\* signed amount and running balance carry the same identifier, whatever
\* their text, file or position.
C16_IdFromStableFields ==
    AfterPrepare =>
        \A i \in DOMAIN LoadedIds : \A j \in DOMAIN LoadedIds :
            LoadedStableFields[i] = LoadedStableFields[j] => LoadedIds[i] = LoadedIds[j]

\* C17: two loaded transactions that are different events (every loaded row
\* is one: no statement file repeats a row of another) receive different
\* identifiers; in particular two Zen transactions of different accounts
\* (IBAN or statement currency) never share an identifier.
C17_DistinctEventsDistinctIds ==
    AfterPrepare =>
        /\ \A i \in DOMAIN LoadedIds : \A j \in DOMAIN LoadedIds :
               i # j => LoadedIds[i] # LoadedIds[j]
        /\ kind = "zen" =>
               LET T == ZenTransactions(statements)
               IN \A i \in DOMAIN T : \A j \in DOMAIN T :
                      ZenAccountId(T[i].statement) # ZenAccountId(T[j].statement)
                          => LoadedIds[i] # LoadedIds[j]

\* The places <<i, k>> of the ledger (entry i, its posting k) that an index
\* over the owned accounts has to list under ref, and the number of such
\* places up to and including place p
IndexPlaces(entries, ref) ==
    UNION {{<<i, k>> : k \in {n \in DOMAIN entries[i].postings :
                                /\ entries[i].postings[n].account \in get_all_accounts
                                /\ entries[i].postings[n].meta = ref}} :
           i \in {m \in DOMAIN entries : entries[m].type = "Transaction"}}

PlaceRank(entries, ref, p) ==
    Cardinality({q \in IndexPlaces(entries, ref) :
                    q[1] < p[1] \/ (q[1] = p[1] /\ q[2] <= p[2])})

IndexIsExact(entries, ref) ==
    LET L == MatchedGet(entries, get_all_accounts, ref)
    IN /\ Len(L) = Cardinality(IndexPlaces(entries, ref))
       /\ \A p \in IndexPlaces(entries, ref) :
              L[PlaceRank(entries, ref, p)] = <<entries[p[1]], entries[p[1]].postings[p[2]]>>
       /\ (ref \in Range(MatchedKeys(entries, get_all_accounts))) <=> (Len(L) > 0)

\* C18: the ledger index maps each identifier to exactly the list, in ledger
\* order, of the (entry, posting) pairs whose entry is a transaction, whose
\* posting is on an owned account and carries the identifier as source_ref;
\* nothing else appears and repeated references are all kept.  The lists
\* reported in Invalid References are these lists.
C18_IndexIsExact ==
    /\ \A r \in JournalRefs \cup EditRefs : IndexIsExact(journal, r)
    /\ AfterPrepare =>
           \A k \in DOMAIN results.invalid :
               LET pairs == results.invalid[k].transaction_posting_pairs
               IN  pairs = MatchedGet(seen, get_all_accounts, pairs[1][2].meta)

\* A run over a ledger holding three owned postings of one identifier next to
\* postings without source_ref and entries that are no transactions
C18_Witness ==
    /\ AfterPrepare
    /\ \E r \in JournalRefs :
           /\ IndexCount(r) >= 3
           /\ InvalidFor(r) # {}
    /\ \E i \in DOMAIN journal : journal[i].type # "Transaction"
    /\ \E i \in DOMAIN AllPostings(journal) :
           ~IndexedFilter(AllPostings(journal)[i], get_all_accounts)

\* C19: prepare never adds, removes or modifies a ledger entry: across every
\* run of prepare the ledger is the same before and after.
C19_PrepareKeepsLedger ==
    [][log' = Append(log, "prepare") => journal' = journal]_vars

\* A run that staged entries and recorded Invalid References over a ledger
\* that already held entries
C19_Witness ==
    /\ AfterPrepare
    /\ journal # <<>>
    /\ journal = seen
    /\ results.pending # <<>>
    /\ results.invalid # <<>>

\* What a run of prepare over the ledger entries returns when it is executed
\* on day now
SourcePrepareOn(entries, now) ==
    IF kind = "zen" THEN ZenPrepare(statements, entries, now)
    ELSE SourcePrepare(entries)

\* C20: for a fixed source snapshot and ledger snapshot, two runs of
\* reconciliation return the same Pending Entries and the same Invalid
\* References in the same order, whenever they are executed: the run made on
\* any other day over the statements and the ledger of this run returns what
\* this run returned.
C20_RunsAgree ==
    AfterPrepare =>
        \A now \in RunDays : SourcePrepareOn(seen, now) = results

\* C21: every pair returned by _find_fx_pairs consists of two 'Exchange
\* money' transactions of the same date and currency rate, a source with a
\* negative and a target with a positive settlement amount, with
\* |source settlement| = |target original| and |source original| =
\* |target settlement|, from statements of different currencies; and no
\* loaded transaction belongs to more than one pair.
C21_FxPairsWellFormed ==
    log = <<"find_fx_pairs">> =>
        LET T == ZenTransactions(statements)
            P == results.pairs
        IN /\ \A k \in DOMAIN P :
                  LET s == T[P[k].src]
                      t == T[P[k].tgt]
                  IN /\ s.txn.transaction_type = "Exchange money"
                     /\ t.txn.transaction_type = "Exchange money"
                     /\ s.txn.date = t.txn.date
                     /\ s.txn.currency_rate = t.txn.currency_rate
                     /\ s.txn.settlement_amount < 0
                     /\ t.txn.settlement_amount > 0
                     /\ Abs(s.txn.settlement_amount) = Abs(t.txn.original_amount)
                     /\ Abs(s.txn.original_amount) = Abs(t.txn.settlement_amount)
                     /\ s.statement.currency # t.statement.currency
           /\ \A k \in DOMAIN P : \A l \in DOMAIN P :
                  k # l => {P[k].src, P[k].tgt} \cap {P[l].src, P[l].tgt} = {}

\* Two pairs are returned while a further source that fits an already
\* taken target stays unpaired
C21_Witness ==
    /\ log = <<"find_fx_pairs">>
    /\ Len(results.pairs) = 2
    /\ LET T == ZenTransactions(statements)
       IN \E s \in ZenFxIdx(T) : \E k \in DOMAIN results.pairs :
              /\ \A l \in DOMAIN results.pairs : results.pairs[l].src # s
              /\ T[s].txn.settlement_amount < 0
              /\ ZenGroupKey(T, s) = ZenGroupKey(T, results.pairs[k].tgt)
              /\ ZenFxMatch(T, s, results.pairs[k].tgt)

\* A row whose date, settlement amount or balance cannot be read
CsvRowFails(row) ==
    \/ parse_zen_date(row.Date) = <<>>
    \/ row.Settlement_amount # "" /\ ParseDecimal(row.Settlement_amount) = <<>>
    \/ row.Balance # "" /\ ParseDecimal(row.Balance) = <<>>

\* C22: a Zen CSV row whose date, settlement amount or balance cannot be
\* parsed is omitted by the loader without aborting the load: the load ends
\* normally and no loaded transaction comes from such a row.
C22_MalformedRowOmitted ==
    log # <<>> =>
        /\ log = <<"load">>
        /\ \A n \in DOMAIN file_lines :
               CsvRowFails(file_lines[n]) =>
                   \A s \in DOMAIN statements :
                       \A i \in DOMAIN statements[s].transactions :
                           statements[s].transactions[i].line_number # 17 + n

\* The rules in the order the claim names: those of the transaction's bank,
\* then the generic ones
RulesInOrder(t) == BankRulesFor(t) \o GENERIC_RULES

\* C23: get_parsed_transaction returns the extraction of the first rule
\* whose condition holds, taking the rules of the transaction's bank (name
\* compared case-insensitively) in list order and then the generic rules in
\* list order, and returns None only when no rule's condition holds.
C23_FirstMatchingRule ==
    log = <<"get_parsed_transaction">> =>
        LET R == RulesInOrder(eb_txn)
            holds == {i \in DOMAIN R : RuleCondition(R[i], eb_txn) = "True"}
        IN /\ (results = <<>>) <=> (holds = {})
           /\ \A i \in holds :
                  (\A j \in holds : i <= j) => results = <<RuleExtract(R[i], eb_txn)>>

\* A Revolut card payment, the bank written in capitals, for which a generic
\* rule holds as well and would extract something else
C23_Witness ==
    /\ log = <<"get_parsed_transaction">>
    /\ eb_txn.bank = "REVOLUT"
    /\ RuleCondition("card_payment", eb_txn) = "True"
    /\ \E g \in Range(GENERIC_RULES) :
           /\ RuleCondition(g, eb_txn) = "True"
           /\ RuleExtract(g, eb_txn) # RuleExtract("card_payment", eb_txn)
    /\ results = <<RuleExtract("card_payment", eb_txn)>>

\* C24: when every entry staged by one run of prepare has been committed, on
\* the accounts it was staged for, and prepare runs again over the same
\* statements, the second run stages no transaction entry (for a Zen exchange
\* neither side is staged again).
C24_NoTransactionStagedAgain ==
    log = <<"prepare", "commit", "prepare">> => PendingTransactions = {}

\* C25: within one run of prepare each identifier is the subject of at most
\* one Invalid Reference, however many loaded transactions produce it and
\* however many ledger postings carry it.
C25_OneInvalidPerIdentifier ==
    AfterPrepare =>
        \A r \in JournalRefs \cup ProducedIds : Cardinality(InvalidFor(r)) <= 1

\* C26: every pending transaction carries, on each posting that is not the
\* placeholder one, a source_ref equal to the identifier that prepare added
\* to valid_ids and looked up (without finding it) in the ledger index for
\* the loaded transaction the posting was made from; the placeholder posting
\* carries none.
C26_SourceRefIsIdentifier ==
    AfterPrepare =>
        \A k \in PendingTransactions :
            LET e == results.pending[k].entries[1]
            IN \A n \in DOMAIN e.postings :
                   LET p == e.postings[n]
                   IN IF p.account = FIXME_ACCOUNT THEN p.meta = NoRef
                      ELSE /\ p.meta \in valid_ids
                           /\ MatchedGet(seen, get_all_accounts, p.meta) = <<>>
                           /\ \E i \in DOMAIN LoadedIds :
                                  /\ LoadedIds[i] = p.meta
                                  /\ LoadedAccounts[i] = p.account
                                  /\ LoadedStableFields[i][1] = e.date
                                  /\ LoadedStableFields[i][2] = p.units

\* A run over a ledger that already holds references stages a Zen exchange
\* carrying the identifiers of its two sides
C26_Witness ==
    /\ AfterPrepare
    /\ kind = "zen"
    /\ JournalRefs # {}
    /\ \E k \in PendingTransactions :
           /\ results.pending[k].entries[1].postings[1].meta \in valid_ids
           /\ results.pending[k].entries[1].postings[2].meta \in valid_ids

\* The identifiers on the postings of the transactions the first run, over
\* the empty ledger, staged and the write-back committed
CommittedRefs ==
    LET first == SourcePrepare(<<>>).pending
    IN UNION {{first[k].entries[1].postings[n].meta :
                  n \in DOMAIN first[k].entries[1].postings} :
              k \in {j \in DOMAIN first : first[j].entries[1].type = "Transaction"}}
       \ {NoRef}

\* C27: after a human has removed committed transactions from the ledger, the
\* next run of prepare over the unchanged statements stages again the loaded
\* transactions whose identifiers were carried only by removed postings, and
\* stages no transaction for a loaded transaction whose identifier is still
\* in the ledger.
C27_RemovedAreStagedAgain ==
    log = <<"prepare", "commit", "remove", "prepare">> =>
        \A i \in DOMAIN LoadedIds :
            /\ LoadedIds[i] \in JournalRefs => PendingWith(LoadedIds[i]) = {}
            /\ LoadedIds[i] \in CommittedRefs \ JournalRefs
                   => PendingWith(LoadedIds[i]) # {}
            /\ LoadedIds[i] \notin CommittedRefs => PendingWith(LoadedIds[i]) = {}

\* C28: every balance assertion RevolutSource.prepare stages for a mapped
\* account asserts the running balance after the chronologically last loaded
\* transaction of that account and is dated the day after that transaction,
\* whichever of the account's transactions the ledger already records.
C28_RevolutBalanceIsLast ==
    (kind = "revolut" /\ AfterPrepare) =>
        \A k \in DOMAIN results.pending :
            LET e == results.pending[k].entries[1]
                T == RevolutTransactions(statements)
                mine == {i \in DOMAIN T : LoadedAccounts[i] = e.account}
                last == {i \in mine : \A j \in mine : T[j].txn.date <= T[i].txn.date}
            IN e.type = "Balance" =>
                   \E i \in last : /\ e.date = T[i].txn.date + 1
                                   /\ e.amount = T[i].txn.balance_after

\* C29: for every transaction the VeloBank new-format parser produces, the
\* signed amount equals balance_after minus the running balance the
\* statement shows before it (the opening balance for the first line), so
\* that the signed amounts reproduce the statement's running balance.
C29_SignedAmountFollowsBalance ==
    (log = <<"parse_new_format">> /\ file_lines.opening_balance # <<>>) =>
        \A n \in DOMAIN statements :
            LET i == statements[n].line_number
                before == IF i = 1 THEN file_lines.opening_balance[1]
                          ELSE file_lines.lines[i - 1].balance
            IN statements[n].amount = statements[n].balance_after - before

\* C30: every transaction loaded from a credit-card HTML statement has its
\* statement-local line number mixed into its identifier, so that no two
\* transactions of one HTML statement receive the same identifier.
C30_HtmlLineNumberInId ==
    log = <<"load_statements">> =>
        \A s \in DOMAIN statements :
            LET T == statements[s].transactions
            IN \A i \in DOMAIN T :
                /\ Velobank_generate_transaction_id(T[i])
                       = <<"velobank", T[i].booking_date, T[i].amount, T[i].balance_after,
                           T[i].line_number>>
                /\ \A j \in DOMAIN T :
                       i # j => Velobank_generate_transaction_id(T[i])
                                    # Velobank_generate_transaction_id(T[j])

====
